---- MODULE Spec2Model ----
(***************************************************************************)
(* Model of flama/routing.py: signature introspection (FieldsMixin), the   *)
(* HTTP endpoint adapter (Route.endpoint_wrapper), the registration        *)
(* surface of Router (add_route, add_websocket_route, add_resource, mount, *)
(* register_router) and match resolution (Router.get_route_from_scope).    *)
(*                                                                         *)
(* Strings are sequences of one-character strings, so that concatenation   *)
(* (root_path + path), prefix matching and rstrip are computed.            *)
(* An optional value (a dict key that may be missing, a Python None) is a  *)
(* sequence of length 0 (missing / None) or 1.                             *)
(***************************************************************************)
EXTENDS Integers, Sequences, FiniteSets, TLC

VARIABLES
    routes,      \* routes[r]: Router.routes of router r, in registration order
    components,  \* components[r]: identity of the list object r.components
    epReq,       \* epReq[e]: endpoint e's _request_schemas attribute
    epResp,      \* epResp[e]: endpoint e's _response_schema attribute
    lastOp,      \* the last registration call, its arguments and its outcome
    phase,       \* "setup" while registering, "serving" once requests arrive
    result,      \* outcome of the last get_route_from_scope call
    intro,       \* input and output of the last _get_fields_from_handler call
    resp         \* input and output of the last endpoint-adapter call

vars == <<routes, components, epReq, epResp, lastOp, phase, result, intro, resp>>

----------------------------------------------------------------------------
(* Bounds *)

\* Registration calls made before serving starts.
MaxCalls == 4
\* Routers of the application (0 is the application's own router).
NumRouters == 3
\* Declared parameters of a handler in the introspection specification.
MaxParams == 2

----------------------------------------------------------------------------
(* Optional values and strings *)

Absent == <<>>
Some(v) == <<v>>
Get(o, d) == IF o = <<>> THEN d ELSE o[1]

EmptyStr == <<>>
PathA == <<"/", "a">>
PathASlash == <<"/", "a", "/">>
PathX == <<"/", "x">>
PathC == <<"/", "c">>
PathAC == PathA \o PathC
PathAAC == PathA \o PathA \o PathC
PathParamX == <<"/", "{x}">>
PathParamSelf == <<"/", "{self}">>

StartsWith(s, p) == Len(p) <= Len(s) /\ SubSeq(s, 1, Len(p)) = p

\* str.rstrip("/"): every trailing slash is removed.
RECURSIVE RStripSlash(_)
RStripSlash(s) ==
    IF s # <<>> /\ s[Len(s)] = "/" THEN RStripSlash(SubSeq(s, 1, Len(s) - 1)) ELSE s

\* The names of a path's "{name}" segments: the keys of param_convertors.
ParamName(tok) ==
    CASE tok = "{x}" -> "x"
      [] tok = "{y}" -> "y"
      [] tok = "{self}" -> "self"
      [] tok = "{cls}" -> "cls"
      [] OTHER -> ""
ParamConvertors(path) ==
    {ParamName(path[i]) : i \in DOMAIN path} \ {""}

----------------------------------------------------------------------------
(* Scopes and the substrate's matchers *)

\* A child scope: the keys a match adds to the scope. A key the match does not
\* set is Absent.
EmptyChild ==
    [endpoint |-> Absent, root_path |-> Absent, path |-> Absent, app_root_path |-> Absent]

\* dict.update(child_scope)
ScopeUpdate(scope, child) ==
    [scope EXCEPT
        !.endpoint = IF child.endpoint = Absent THEN @ ELSE child.endpoint,
        !.root_path = IF child.root_path = Absent THEN @ ELSE child.root_path,
        !.path = IF child.path = Absent THEN @ ELSE child.path[1],
        !.app_root_path = IF child.app_root_path = Absent THEN @ ELSE child.app_root_path]

FnRef(e) == [isApp |-> FALSE, fn |-> e, app |-> 0]
AppRef(r) == [isApp |-> TRUE, fn |-> "", app |-> r]

\* The compiled path regex: a literal matches itself, a "{name}" segment
\* matches one or more characters other than the slash.
RECURSIVE PathMatches(_, _)
PathMatches(pat, s) ==
    IF pat = <<>> THEN s = <<>>
    ELSE IF ParamName(Head(pat)) # ""
    THEN \E k \in 1..Len(s) :
            /\ \A i \in 1..k : s[i] # "/"
            /\ PathMatches(Tail(pat), SubSeq(s, k + 1, Len(s)))
    ELSE s # <<>> /\ Head(s) = Head(pat) /\ PathMatches(Tail(pat), Tail(s))

\* starlette Route.matches / WebSocketRoute.matches: the path must match as a
\* whole; an HTTP route whose method set does not hold the method is PARTIAL.
RouteMatches(route, scope) ==
    IF route.kind = "route" /\ scope.type = "http" /\ PathMatches(route.path, scope.path)
    THEN [match |-> IF route.methods # {} /\ scope.method \notin route.methods
                    THEN "PARTIAL" ELSE "FULL",
          child |-> [EmptyChild EXCEPT !.endpoint = Some(FnRef(route.endpoint))]]
    ELSE IF route.kind = "websocket" /\ scope.type = "websocket"
            /\ PathMatches(route.path, scope.path)
    THEN [match |-> "FULL",
          child |-> [EmptyChild EXCEPT !.endpoint = Some(FnRef(route.endpoint))]]
    ELSE [match |-> "NONE", child |-> EmptyChild]

\* starlette Mount.matches: the path must start with the prefix and a slash;
\* the child scope moves the prefix from path to root_path.
MountMatches(route, scope) ==
    IF StartsWith(scope.path, route.path \o <<"/">>)
    THEN LET remaining_path == SubSeq(scope.path, Len(route.path) + 1, Len(scope.path))
             matched_path == SubSeq(scope.path, 1, Len(scope.path) - Len(remaining_path))
             root_path == Get(scope.root_path, EmptyStr)
         IN [match |-> "FULL",
             child |-> [endpoint |-> Some(AppRef(route.app)),
                        root_path |-> Some(root_path \o matched_path),
                        path |-> Some(remaining_path),
                        app_root_path |-> Some(Get(scope.app_root_path, root_path))]]
    ELSE [match |-> "NONE", child |-> EmptyChild]

Matches(route, scope) ==
    IF route.kind = "mount" THEN MountMatches(route, scope) ELSE RouteMatches(route, scope)

----------------------------------------------------------------------------
(* Router.get_route_from_scope *)

EntryRef(r, i) == [found |-> TRUE, router |-> r, idx |-> i]
NotFoundRef(r) == [found |-> FALSE, router |-> r, idx |-> 0]

\* Lines 390-394: before a Mount is matched, root_path is popped from the
\* scope and, outside a mount, the path becomes root_path + path.
RewriteForMount(scope, mounted) ==
    [scope EXCEPT
        !.root_path = Absent,
        !.path = IF mounted THEN @ ELSE Get(scope.root_path, EmptyStr) \o @]

\* Lines 400-402: inside a mount the popped root_path is put in front of the
\* root_path the Mount's child scope carries.
MountedRootPath(scope, popped, child, mounted) ==
    IF mounted
    THEN [scope EXCEPT !.root_path = Some(popped \o Get(child.root_path, EmptyStr))]
    ELSE scope

\* A router that remembers the last PARTIAL match instead of the first.
RememberLastPartial(partial, match, ref, child) ==
    IF match = "PARTIAL"
    THEN Some([route |-> ref, child |-> child])
    ELSE partial

\* Lines 407-409: a PARTIAL match is remembered only when none is remembered.
RememberPartial(partial, match, ref, child) ==
    IF match = "PARTIAL" /\ partial = Absent
    THEN Some([route |-> ref, child |-> child])
    ELSE partial

\* The for loop goes on with the next entry after a PARTIAL or NONE match.
NextEntry(i, match, n) == i + 1

\* The loop of lines 389-415 from entry i of router r on. A FULL-matching
\* Mount returns what its sub-router returns. log keeps what the call did:
\* log.calls has one record per (recursive) call, with its arguments, and
\* log.trace one record per entry examined, with the scope before line 390,
\* the scope handed to matches() and the match.
RECURSIVE GetRouteLoop(_, _, _, _, _, _, _)
GetRouteLoop(rts, r, i, scope, mounted, partial, log) ==
    IF i > Len(rts[r])
    THEN IF partial # Absent
         THEN [route |-> partial[1].route,
               scope |-> Some(ScopeUpdate(scope, partial[1].child)),
               log |-> log]
         ELSE [route |-> NotFoundRef(r), scope |-> Absent, log |-> log]
    ELSE LET route == rts[r][i]
             isMount == route.kind = "mount"
             root_path == Get(scope.root_path, EmptyStr)
             s1 == IF isMount THEN RewriteForMount(scope, mounted) ELSE scope
             m == Matches(route, s1)
             tr == [log EXCEPT !.trace =
                        Append(@, [router |-> r, idx |-> i, mounted |-> mounted,
                                   isMount |-> isMount, before |-> scope,
                                   examined |-> s1, match |-> m.match])]
         IN IF m.match = "FULL"
            THEN LET s2 == ScopeUpdate(s1, m.child)
                 IN IF isMount
                    THEN LET s3 == MountedRootPath(s2, root_path, m.child, mounted)
                         IN GetRouteLoop(rts, route.app, 1, s3, TRUE, Absent,
                                [tr EXCEPT !.calls =
                                    Append(@, [router |-> route.app, scope |-> s3,
                                               mounted |-> TRUE])])
                    ELSE [route |-> EntryRef(r, i), scope |-> Some(s2), log |-> tr]
            ELSE GetRouteLoop(rts, r, NextEntry(i, m.match, Len(rts[r])), s1, mounted,
                              RememberPartial(partial, m.match, EntryRef(r, i), m.child),
                              tr)

GetRouteFromScope(rts, r, scope, mounted) ==
    GetRouteLoop(rts, r, 1, scope, mounted, Absent,
                 [calls |-> <<[router |-> r, scope |-> scope, mounted |-> mounted]>>,
                  trace |-> <<>>])

----------------------------------------------------------------------------
(* FieldsMixin: signature introspection *)

\* A parameter: [name, annotation, default]; default is Absent for
\* inspect.Parameter.empty and Some(v) for a declared default v.
\* An annotation is the name of a type; "empty" is inspect.Signature.empty.
OptQueryTypes == {"OptInt", "OptFloat", "OptBool", "OptStr"}

\* PATH_SCHEMA_MAPPING (lines 32-39); an unmapped annotation falls back to
\* String (lines 112-115). "none" is the lambda that builds no schema.
PathSchemaOf(annotation) ==
    CASE annotation = "empty" -> "none"
      [] annotation = "int" -> "Integer"
      [] annotation = "float" -> "Number"
      [] annotation = "str" -> "String"
      [] annotation = "bool" -> "Boolean"
      [] annotation = "PathParam" -> "String"
      [] OTHER -> "String"

\* QUERY_SCHEMA_MAPPING (lines 41-52).
QueryTypes ==
    {"empty", "int", "float", "bool", "str", "QueryParam"} \cup OptQueryTypes
QuerySchemaOf(annotation) ==
    CASE annotation = "empty" -> "none"
      [] annotation \in {"int", "OptInt"} -> "Integer"
      [] annotation \in {"float", "OptFloat"} -> "Number"
      [] annotation \in {"bool", "OptBool"} -> "Boolean"
      [] OTHER -> "String"

\* flama.utils.is_marshmallow_schema / is_marshmallow_dataclass.
IsMarshmallowSchema(annotation) == annotation = "Schema"
IsMarshmallowDataclass(annotation) == annotation = "DataClass"

\* Calling a schema class with keyword arguments; the "none" lambda returns
\* None whatever it is given.
Instantiate(cls, required, missing) ==
    IF cls = "none" THEN Absent
    ELSE Some([cls |-> cls, required |-> required, missing |-> missing])

\* Component.can_handle_parameter(parameter)
CanHandleParameter(component, parameter) == parameter.annotation \in component.handles

\* Lines 83-86: the first component of the list that handles the parameter
\* (0 when the for loop ends without a break).
FirstComponent(comps, parameter) ==
    IF \E c \in DOMAIN comps : CanHandleParameter(comps[c], parameter)
    THEN CHOOSE c \in DOMAIN comps :
            /\ CanHandleParameter(comps[c], parameter)
            /\ \A d \in 1..(c - 1) : ~CanHandleParameter(comps[d], parameter)
    ELSE 0

\* parameters[name] = parameter on an insertion-ordered dict keyed by name.
DictSet(d, p) ==
    IF \E i \in DOMAIN d : d[i].name = p.name
    THEN [i \in DOMAIN d |-> IF d[i].name = p.name THEN p ELSE d[i]]
    ELSE Append(d, p)

\* parameters.update(other)
RECURSIVE DictUpdate(_, _)
DictUpdate(d, other) ==
    IF other = <<>> THEN d ELSE DictUpdate(DictSet(d, Head(other)), Tail(other))

\* _get_parameters_from_handler (lines 77-90) from parameter i on. depth
\* counts the nested calls still allowed: a chain of component expansions
\* longer than the component list repeats a component, and then the
\* recursion never ends (RecursionError: ok = FALSE).
RECURSIVE ParametersLoop(_, _, _, _, _)
ParametersLoop(params, i, comps, depth, parameters) ==
    IF i > Len(params) THEN [ok |-> TRUE, parameters |-> parameters]
    ELSE LET c == FirstComponent(comps, params[i])
         IN IF c = 0
            THEN ParametersLoop(params, i + 1, comps, depth,
                                DictSet(parameters, params[i]))
            ELSE IF depth = 0 THEN [ok |-> FALSE, parameters |-> <<>>]
            ELSE LET sub == ParametersLoop(comps[c].resolve, 1, comps, depth - 1, <<>>)
                 IN IF ~sub.ok THEN sub
                    ELSE ParametersLoop(params, i + 1, comps, depth,
                                        DictUpdate(parameters, sub.parameters))

GetParametersFromHandler(params, comps) ==
    ParametersLoop(params, 1, comps, Len(comps), <<>>)

\* Lines 104-106: a schema override replaces the annotation.
ApplyOverride(param, request_schemas) ==
    IF param.name \in DOMAIN request_schemas
    THEN [param EXCEPT !.annotation = request_schemas[param.name]]
    ELSE param

\* Lines 108-109: self and cls are skipped before any classification.
IsSkipped(name) == name \in {"self", "cls"}

\* Lines 117-119
PathField(param) ==
    [name |-> param.name, location |-> "path",
     schema |-> Instantiate(PathSchemaOf(param.annotation), Some(TRUE), Absent),
     required |-> Some(TRUE)]

\* A required flag that looks at the default only, not at the optional types.
QueryRequiredDefaultOnly(param) == param.default = Absent

\* Line 122
QueryRequired(param) ==
    ~(param.annotation \in OptQueryTypes \/ param.default # Absent)

\* Lines 122-134
QueryField(param) ==
    [name |-> param.name, location |-> "query",
     schema |-> IF QueryRequired(param)
                THEN Instantiate(QuerySchemaOf(param.annotation), Some(TRUE), Absent)
                ELSE Instantiate(QuerySchemaOf(param.annotation), Absent,
                                 Some(Get(param.default, "None"))),
     required |-> Some(QueryRequired(param))]

\* Lines 137 and 140: the Field's required flag is left at its default.
BodyField(param) ==
    [name |-> param.name, location |-> "body",
     schema |-> Some([cls |-> IF IsMarshmallowDataclass(param.annotation)
                               THEN "DataClass.Schema" ELSE param.annotation,
                      required |-> Absent, missing |-> Absent]),
     required |-> Absent]

\* An if/elif chain that looks the annotation up in the query table before
\* it looks the name up in the path parameters.
ClassifyQueryFirst(param, convertors) ==
    IF param.name \in {"self", "cls"} THEN "skipped"
    ELSE IF param.annotation \in QueryTypes THEN "query"
    ELSE IF param.name \in convertors THEN "path"
    ELSE IF IsMarshmallowSchema(param.annotation) THEN "body"
    ELSE IF IsMarshmallowDataclass(param.annotation) THEN "body"
    ELSE "ignored"

\* The if/elif chain of lines 108-140 for one parameter.
Classify(param, convertors) ==
    IF IsSkipped(param.name) THEN "skipped"
    ELSE IF param.name \in convertors THEN "path"
    ELSE IF param.annotation \in QueryTypes THEN "query"
    ELSE IF IsMarshmallowSchema(param.annotation) THEN "body"
    ELSE IF IsMarshmallowDataclass(param.annotation) THEN "body"
    ELSE "ignored"

\* dict[name] = field on a dict held as a function from names.
MapSet(m, k, v) == [n \in DOMAIN m \cup {k} |-> IF n = k THEN v ELSE m[n]]

\* The loop of lines 102-140 from entry i of the expanded parameters on.
RECURSIVE FieldsLoop(_, _, _, _, _)
FieldsLoop(parameters, i, request_schemas, convertors, acc) ==
    IF i > Len(parameters) THEN acc
    ELSE LET param == ApplyOverride(parameters[i], request_schemas)
             kind == Classify(param, convertors)
         IN FieldsLoop(parameters, i + 1, request_schemas, convertors,
                CASE kind = "path" ->
                        [acc EXCEPT !.path_fields = MapSet(@, param.name, PathField(param))]
                  [] kind = "query" ->
                        [acc EXCEPT !.query_fields = MapSet(@, param.name, QueryField(param))]
                  [] kind = "body" -> [acc EXCEPT !.body_field = Some(BodyField(param))]
                  [] OTHER -> acc)

\* Lines 142-144
OutputField(handler) ==
    LET output_field == IF handler.response_schema # Absent
                        THEN handler.response_schema[1] ELSE handler.ret
    IN IF IsMarshmallowDataclass(output_field) THEN "DataClass.Schema" ELSE output_field

\* An empty dict, as a function from names.
EmptyMap == [n \in {} |-> Absent]

\* _get_fields_from_handler (lines 92-146). handler is the callable: its
\* signature (params, ret) and its _request_schemas and _response_schema
\* attributes (Absent when None or not set).
GetFieldsFromHandler(handler, comps, convertors) ==
    LET expanded == GetParametersFromHandler(handler.params, comps)
        request_schemas == Get(handler.request_schemas, EmptyMap)
        acc == FieldsLoop(expanded.parameters, 1, request_schemas, convertors,
                          [query_fields |-> EmptyMap, path_fields |-> EmptyMap,
                           body_field |-> Absent])
    IN IF ~expanded.ok
       THEN [ok |-> FALSE, query_fields |-> EmptyMap, path_fields |-> EmptyMap,
             body_field |-> Absent, output_field |-> "empty"]
       ELSE [ok |-> TRUE, query_fields |-> acc.query_fields,
             path_fields |-> acc.path_fields, body_field |-> acc.body_field,
             output_field |-> OutputField(handler)]

\* _get_fields (lines 56-75) for a function endpoint or a websocket endpoint:
\* every method of the route maps to the same handler.
GetFields(methods, handler, comps, convertors) ==
    LET hf == GetFieldsFromHandler(handler, comps, convertors)
    IN [ok |-> hf.ok,
        query_fields |-> [m \in methods |-> hf.query_fields],
        path_fields |-> [m \in methods |-> hf.path_fields],
        body_field |-> [m \in methods |-> hf.body_field],
        output_field |-> [m \in methods |-> hf.output_field]]

----------------------------------------------------------------------------
(* The endpoints, components and routers of the application *)

\* The signatures of the application's handler functions.
Signature(e) ==
    CASE e = "f" ->
            [params |-> <<[name |-> "x", annotation |-> "int", default |-> Absent],
                          [name |-> "t", annotation |-> "T", default |-> Absent]>>,
             ret |-> "empty"]
      [] OTHER ->
            [params |-> <<[name |-> "y", annotation |-> "str", default |-> Some("d")]>>,
             ret |-> "Schema"]

\* The callable as introspection sees it: signature and attached attributes.
HandlerOf(e, request_schemas, response_schema) ==
    [params |-> Signature(e).params, ret |-> Signature(e).ret,
     request_schemas |-> request_schemas, response_schema |-> response_schema]

\* A component that resolves T from a query parameter, and one that resolves
\* it from an optional query parameter.
ComponentT ==
    [handles |-> {"T"},
     resolve |-> <<[name |-> "q", annotation |-> "int", default |-> Absent]>>]
ComponentOptT ==
    [handles |-> {"T"},
     resolve |-> <<[name |-> "q", annotation |-> "OptInt", default |-> Absent]>>]

\* The component lists the routers are constructed with, by identity: router
\* r is constructed with list r (Router.__init__, lines 280-285). No code of
\* this module changes the contents of a list.
ListContents(id) ==
    CASE id = 0 -> <<ComponentT>>
      [] id = 2 -> <<ComponentOptT>>
      [] OTHER -> <<>>

Routers == 0..(NumRouters - 1)
\* Router 0 is the application's Router; the others are APIRouters, each
\* constructed with the prefix "/a" (lines 570-598).
IsAPIRouter(r) == r >= 1
Prefix(r) == PathA

TotalEntries(rts) ==
    LET RECURSIVE Sum(_)
        Sum(r) == IF r < 0 THEN 0 ELSE Len(rts[r]) + Sum(r - 1)
    IN Sum(NumRouters - 1)

----------------------------------------------------------------------------
(* Route, WebSocketRoute and the registration surface of Router *)

\* starlette Route.__init__ for a function endpoint: no methods means GET,
\* and HEAD is added to a method set that holds GET.
RouteMethods(methods) ==
    LET ms == Get(methods, {"GET"})
    IN IF "GET" \in ms THEN ms \cup {"HEAD"} ELSE ms

\* Route.__init__ (lines 150-161)
BuildRoute(path, endpoint, methods, status_code, comps, request_schemas, response_schema) ==
    LET fields == GetFields(RouteMethods(methods),
                            HandlerOf(endpoint, request_schemas, response_schema),
                            comps, ParamConvertors(path))
    IN [ok |-> fields.ok,
        route |-> [kind |-> "route", path |-> path, endpoint |-> endpoint,
                   methods |-> RouteMethods(methods), status_code |-> status_code,
                   query_fields |-> fields.query_fields,
                   path_fields |-> fields.path_fields,
                   body_field |-> fields.body_field,
                   output_field |-> fields.output_field]]

\* WebSocketRoute.__init__ (lines 236-243): one synthetic GET entry (line 70).
BuildWebSocketRoute(path, endpoint, comps, request_schemas, response_schema) ==
    LET fields == GetFields({"GET"},
                            HandlerOf(endpoint, request_schemas, response_schema),
                            comps, ParamConvertors(path))
    IN [ok |-> fields.ok,
        route |-> [kind |-> "websocket", path |-> path, endpoint |-> endpoint,
                   query_fields |-> fields.query_fields,
                   path_fields |-> fields.path_fields,
                   body_field |-> fields.body_field,
                   output_field |-> fields.output_field]]

\* getattr(endpoint, '_request_schemas', None) as a condition: None and the
\* empty dict are false.
Truthy(schemas) == schemas # Absent /\ schemas[1] # EmptyMap

\* merged_schemas = request_schemas.copy(); merged_schemas.update(attached)
MergeSchemas(explicit, attached) ==
    [n \in DOMAIN explicit \cup DOMAIN attached |->
        IF n \in DOMAIN attached THEN attached[n] ELSE explicit[n]]

\* Lines 304-309: the endpoint's _request_schemas after add_route.
\* request_schemas.copy() raises AttributeError when request_schemas is None.
RequestSchemasAfter(attached, explicit) ==
    IF Truthy(attached)
    THEN IF explicit = Absent
         THEN [raised |-> "AttributeError", value |-> attached]
         ELSE [raised |-> "", value |-> Some(MergeSchemas(explicit[1], attached[1]))]
    ELSE [raised |-> "", value |-> explicit]

\* Lines 311-312
ResponseSchemaAfter(attached, explicit) ==
    IF attached = Absent THEN explicit ELSE attached

\* An append that gives the new route's fields to the routes already built
\* for the same endpoint.
AppendEntryRefreshing(entries, route) ==
    Append([i \in DOMAIN entries |->
                IF /\ route.kind \in {"route", "websocket"}
                   /\ entries[i].kind = route.kind
                   /\ entries[i].endpoint = route.endpoint
                THEN [entries[i] EXCEPT !.query_fields = route.query_fields,
                                        !.path_fields = route.path_fields,
                                        !.body_field = route.body_field,
                                        !.output_field = route.output_field]
                ELSE entries[i]],
           route)

\* self.routes.append(route): the entries already there are left as built.
AppendEntry(entries, route) == Append(entries, route)

\* Router.add_route (lines 287-323) on the registration state
\* st = [routes, components, epReq, epResp, raised].
AddRouteOn(st, r, path, endpoint, methods, status_code, response_schema, request_schemas) ==
    LET req == RequestSchemasAfter(st.epReq[endpoint], request_schemas)
        rsp == ResponseSchemaAfter(st.epResp[endpoint], response_schema)
        built == BuildRoute(path, endpoint, methods, status_code,
                            ListContents(st.components[r]), req.value, rsp)
    IN IF req.raised # "" THEN [st EXCEPT !.raised = req.raised]
       ELSE IF ~built.ok
       THEN [st EXCEPT !.epReq[endpoint] = req.value, !.epResp[endpoint] = rsp,
                       !.raised = "RecursionError"]
       ELSE [st EXCEPT !.epReq[endpoint] = req.value, !.epResp[endpoint] = rsp,
                       !.routes[r] = AppendEntry(@, built.route)]

\* Router.add_websocket_route (lines 325-326)
AddWebSocketRouteOn(st, r, path, endpoint) ==
    LET built == BuildWebSocketRoute(path, endpoint, ListContents(st.components[r]),
                                     st.epReq[endpoint], st.epResp[endpoint])
    IN IF ~built.ok THEN [st EXCEPT !.raised = "RecursionError"]
       ELSE [st EXCEPT !.routes[r] = AppendEntry(@, built.route)]

\* A mount that gives the parent the mounted router's list.
ShareComponentsReversed(comps, parent, app) == [comps EXCEPT ![parent] = comps[app]]

\* Line 341: the mounted Router's components become the parent's list.
ShareComponents(comps, parent, app) == [comps EXCEPT ![app] = comps[parent]]

\* Router.mount (lines 339-345) for an app that is a Router.
MountOn(st, r, path, app) ==
    [st EXCEPT !.components = ShareComponents(@, r, app),
               !.routes[r] = AppendEntry(@, [kind |-> "mount",
                                             path |-> RStripSlash(path),
                                             app |-> app])]

\* APIRouter.register_router (lines 600-602)
RegisterRouterOn(st, r, router) ==
    IF ~IsAPIRouter(router) THEN [st EXCEPT !.raised = "AssertionError"]
    ELSE MountOn(st, r, Prefix(router), router)

\* Router.add_resource (lines 328-337) from route i of the resource on; an
\* exception of add_route ends the loop with the earlier routes registered.
RECURSIVE AddResourceOn(_, _, _, _, _)
AddResourceOn(st, r, path, resource, i) ==
    IF i > Len(resource.routes) \/ st.raised # "" THEN st
    ELSE LET route == resource.routes[i]
         IN AddResourceOn(
                AddRouteOn(st, r, path \o resource.name \o route.path, route.func,
                           route.methods, route.status_code, Absent, Absent),
                r, path, resource, i + 1)

----------------------------------------------------------------------------
(* The HTTP endpoint adapter: response normalization *)

\* APIResponse(content=..., schema=..., background=..., status_code=...)
APIResponse(content, schema, background, status_code) ==
    [cls |-> "APIResponse", content |-> content, schema |-> schema,
     background |-> background, status_code |-> status_code]

\* A Python value, as far as normalization tells values apart: value.kind is
\* "dict", "list", "str", "None", "Response" (an instance of
\* flama.responses.Response) or "other"; value.obj is the response object of
\* a "Response" and NoObj for the other kinds.
NoObj ==
    [cls |-> "", content |-> "", schema |-> Absent, background |-> Absent,
     status_code |-> 0]
ResponseValue(obj) == [kind |-> "Response", obj |-> obj]

\* A normalization that builds a new response around a response object too.
NormalizeRebuildsResponse(value, schema, background_task, status_code) ==
    IF value.kind \in {"dict", "list"}
    THEN ResponseValue(APIResponse(value.kind, schema, background_task, status_code))
    ELSE IF value.kind = "str"
    THEN ResponseValue(APIResponse(value.kind, Absent, background_task, status_code))
    ELSE IF value.kind = "None"
    THEN ResponseValue(APIResponse("", Absent, background_task, status_code))
    ELSE IF value.kind = "Response"
    THEN ResponseValue([value.obj EXCEPT !.background = background_task,
                                         !.status_code = status_code])
    ELSE IF schema # Absent
    THEN ResponseValue(APIResponse(value.kind, schema, background_task, status_code))
    ELSE value

\* Lines 197-225: the value line 230 calls. value is what the handler
\* returned and schema is get_output_schema(endpoint). The content of a
\* built APIResponse is the returned value, named here by its kind.
Normalize(value, schema, background_task, status_code) ==
    CASE value.kind \in {"dict", "list"} ->
            ResponseValue(APIResponse(value.kind, schema, background_task, status_code))
      [] value.kind = "str" ->
            ResponseValue(APIResponse(value.kind, Absent, background_task, status_code))
      [] value.kind = "None" ->
            ResponseValue(APIResponse("", Absent, background_task, status_code))
      [] value.kind = "Response" -> value
      [] OTHER ->
            IF schema # Absent
            THEN ResponseValue(APIResponse(value.kind, schema, background_task,
                                           status_code))
            ELSE value

----------------------------------------------------------------------------
(* State, initial states and actions *)

Endpoints == {"f", "g"}

NoOp ==
    [op |-> "none", router |-> 0, path |-> EmptyStr, endpoint |-> "", app |-> 0,
     attached |-> Absent, explicit |-> Absent, attachedResp |-> Absent,
     explicitResp |-> Absent, entries |-> 0, raised |-> ""]

NoScope ==
    [type |-> "http", method |-> "GET", path |-> EmptyStr, root_path |-> Absent,
     app_root_path |-> Absent, endpoint |-> Absent]

NoResult ==
    [called |-> FALSE, given |-> NoScope, route |-> NotFoundRef(0), scope |-> Absent,
     calls |-> <<>>, trace |-> <<>>]

NoIntro ==
    [done |-> FALSE, params |-> <<>>, comps |-> <<>>, path |-> EmptyStr,
     request_schemas |-> Absent,
     out |-> [ok |-> FALSE, query_fields |-> EmptyMap, path_fields |-> EmptyMap,
              body_field |-> Absent, output_field |-> "empty"],
     parameters |-> <<>>]

NoValue == [kind |-> "None", obj |-> NoObj]

NoResp ==
    [done |-> FALSE, value |-> NoValue, schema |-> Absent, background_task |-> Absent,
     status_code |-> 0, sent |-> NoValue,
     pc |-> "idle", scope |-> NoScope, events |-> <<>>, exc |-> "", raisedAt |-> ""]

\* Router.__init__ (lines 280-285): no routes, each router with its own list.
InitRouters ==
    /\ routes = [r \in Routers |-> <<>>]
    /\ components = [r \in Routers |-> r]
    /\ lastOp = NoOp
    /\ phase = "setup"
    /\ result = NoResult

St ==
    [routes |-> routes, components |-> components, epReq |-> epReq, epResp |-> epResp,
     raised |-> ""]

Becomes(st) ==
    /\ routes' = st.routes
    /\ components' = st.components
    /\ epReq' = st.epReq
    /\ epResp' = st.epResp
    /\ UNCHANGED <<phase, result, intro, resp>>

\* The registration calls. lastOp is set by the specifications that record
\* the calls they make.
AddRoute(r, path, endpoint, methods, status_code, response_schema, request_schemas) ==
    /\ phase = "setup"
    /\ Becomes(AddRouteOn(St, r, path, endpoint, methods, status_code,
                          response_schema, request_schemas))

AddWebSocketRoute(r, path, endpoint) ==
    /\ phase = "setup"
    /\ Becomes(AddWebSocketRouteOn(St, r, path, endpoint))

AddResource(r, path, resource) ==
    /\ phase = "setup"
    /\ Becomes(AddResourceOn(St, r, path, resource, 1))

Mount(r, path, app) ==
    /\ phase = "setup"
    /\ Becomes(MountOn(St, r, path, app))

RegisterRouter(r, router) ==
    /\ phase = "setup"
    /\ IsAPIRouter(r)
    /\ Becomes(RegisterRouterOn(St, r, router))

\* A request arrives: the application's router resolves its scope (line 172).
Request(scope) ==
    /\ phase' = "serving"
    /\ LET got == GetRouteFromScope(routes, 0, scope, FALSE)
       IN result' = [called |-> TRUE, given |-> scope, route |-> got.route,
                     scope |-> got.scope, calls |-> got.log.calls,
                     trace |-> got.log.trace]
    /\ UNCHANGED <<routes, components, epReq, epResp, lastOp, intro, resp>>

\* Route construction introspects the handler: _get_fields_from_handler on a
\* handler, a component list and the route's compiled path parameters.
Introspect ==
    /\ ~intro.done
    /\ LET handler == [params |-> intro.params, ret |-> "empty",
                       request_schemas |-> intro.request_schemas,
                       response_schema |-> Absent]
       IN intro' = [intro EXCEPT
                       !.done = TRUE,
                       !.out = GetFieldsFromHandler(handler, intro.comps,
                                                    ParamConvertors(intro.path)),
                       !.parameters = GetParametersFromHandler(intro.params,
                                                               intro.comps).parameters]
    /\ UNCHANGED <<routes, components, epReq, epResp, lastOp, phase, result, resp>>

\* The adapter _app (lines 169-230) once the handler has returned resp.value:
\* the value is normalized and the outcome is what line 230 sends.
Adapter ==
    /\ ~resp.done
    /\ resp' = [resp EXCEPT
                   !.done = TRUE,
                   !.sent = Normalize(resp.value, resp.schema, resp.background_task,
                                      resp.status_code)]
    /\ UNCHANGED <<routes, components, epReq, epResp, lastOp, phase, result, intro>>

----------------------------------------------------------------------------
(* Specification of match resolution: routers are built, then requests are *)
(* resolved. Router r mounts router r + 1.                                 *)

GetOnly == Some({"GET"})
PostOnly == Some({"POST"})

\* The scopes of GET requests for /c, /a/c and /a/a/c as they arrive
\* (root_path ""), and the scope of a request for /a/c once the substrate
\* has routed it through a Mount at /a, as the adapter hands it to line 172.
RequestScopes ==
    {[NoScope EXCEPT !.path = p, !.root_path = Some(EmptyStr)] :
        p \in {PathC, PathAC, PathAAC}}
    \cup {[NoScope EXCEPT !.path = PathC, !.root_path = Some(PathA)]}

InitRoute ==
    /\ InitRouters
    /\ epReq = [e \in Endpoints |-> Absent]
    /\ epResp = [e \in Endpoints |-> Absent]
    /\ intro = NoIntro
    /\ resp = NoResp

RouteAddRoute ==
    /\ TotalEntries(routes) < MaxCalls
    /\ \E r \in Routers, path \in {PathC, PathAC}, methods \in {GetOnly, PostOnly} :
          /\ path = PathAC => (r = 0 /\ methods = PostOnly)
          /\ AddRoute(r, path, "g", methods, 200, Absent, Absent)
    /\ UNCHANGED lastOp

RouteMount ==
    /\ TotalEntries(routes) < MaxCalls
    /\ \E r \in Routers, path \in {PathA, PathX} :
          /\ r + 1 \in Routers
          /\ Mount(r, path, r + 1)
    /\ UNCHANGED lastOp

RouteRequest == \E scope \in RequestScopes : Request(scope)

NextRoute == RouteAddRoute \/ RouteMount \/ RouteRequest

SpecRoute == InitRoute /\ [][NextRoute]_vars

----------------------------------------------------------------------------
(* Specification of add_route: endpoints are registered on the             *)
(* application's router, with and without schema overrides, and an         *)
(* endpoint may carry overrides attached before (the @schemas decorator of *)
(* the comment at lines 298-303).                                          *)

MaxAdds == 2

ExplicitSchemas ==
    {Absent, Some(EmptyMap), Some([n \in {"x"} |-> "Schema"]),
     Some([n \in {"x", "y"} |-> IF n = "x" THEN "DataClass" ELSE "Schema"])}
ResponseSchemas == {Absent, Some("Schema"), Some("DataClass")}

InitAdd ==
    /\ InitRouters
    /\ epReq \in [Endpoints -> {Absent, Some([n \in {"x"} |-> "DataClass"])}]
    /\ epResp \in [Endpoints -> {Absent, Some("Schema")}]
    /\ epReq["g"] = Absent /\ epResp["g"] = Absent
    /\ intro = NoIntro
    /\ resp = NoResp

AddRouteCall ==
    /\ TotalEntries(routes) < MaxAdds
    /\ \E endpoint \in Endpoints, request_schemas \in ExplicitSchemas,
          response_schema \in ResponseSchemas :
          /\ AddRoute(0, PathParamX, endpoint, GetOnly, 200, response_schema,
                      request_schemas)
          /\ lastOp' = [NoOp EXCEPT
                           !.op = "add_route", !.path = PathParamX,
                           !.endpoint = endpoint, !.attached = epReq[endpoint],
                           !.explicit = request_schemas,
                           !.attachedResp = epResp[endpoint],
                           !.explicitResp = response_schema,
                           !.entries = Len(routes[0]),
                           !.raised = AddRouteOn(St, 0, PathParamX, endpoint, GetOnly,
                                                 200, response_schema,
                                                 request_schemas).raised]

NextAdd == AddRouteCall

SpecAdd == InitAdd /\ [][NextAdd]_vars

----------------------------------------------------------------------------
(* Specification of the registration surface: routes, websocket routes,    *)
(* resources and mounts are registered on any router, in any order.        *)

MaxRegs == 2

\* A resource named "p" with one route, GET /{x}, handled by f.
Resource ==
    [name |-> <<"p">>,
     routes |-> <<[path |-> PathParamX, func |-> "f", methods |-> GetOnly,
                   status_code |-> 200]>>]

InitReg ==
    /\ InitRouters
    /\ epReq = [e \in Endpoints |-> Absent]
    /\ epResp = [e \in Endpoints |-> Absent]
    /\ intro = NoIntro
    /\ resp = NoResp

RegAddRoute ==
    /\ TotalEntries(routes) < MaxRegs
    /\ \E r \in Routers, request_schemas \in {Absent, Some([n \in {"x"} |-> "Schema"])} :
          /\ AddRoute(r, PathParamX, "f", GetOnly, 200, Absent, request_schemas)
          /\ lastOp' = [NoOp EXCEPT
                           !.op = "add_route", !.router = r, !.path = PathParamX,
                           !.endpoint = "f", !.explicit = request_schemas,
                           !.raised = AddRouteOn(St, r, PathParamX, "f", GetOnly, 200,
                                                 Absent, request_schemas).raised]

RegAddWebSocketRoute ==
    /\ TotalEntries(routes) < MaxRegs
    /\ \E r \in Routers :
          /\ AddWebSocketRoute(r, PathC, "f")
          /\ lastOp' = [NoOp EXCEPT
                           !.op = "add_websocket_route", !.router = r, !.path = PathC,
                           !.endpoint = "f",
                           !.raised = AddWebSocketRouteOn(St, r, PathC, "f").raised]

RegAddResource ==
    /\ TotalEntries(routes) + Len(Resource.routes) <= MaxRegs
    /\ \E r \in Routers :
          /\ AddResource(r, <<"/">>, Resource)
          /\ lastOp' = [NoOp EXCEPT
                           !.op = "add_resource", !.router = r, !.path = <<"/">>,
                           !.raised = AddResourceOn(St, r, <<"/">>, Resource, 1).raised]

RegMount ==
    /\ TotalEntries(routes) < MaxRegs
    /\ \E r \in Routers, app \in Routers, path \in {PathA, PathASlash} :
          /\ app # r
          /\ Mount(r, path, app)
          /\ lastOp' = [NoOp EXCEPT
                           !.op = "mount", !.router = r, !.path = path, !.app = app]

RegRegisterRouter ==
    /\ TotalEntries(routes) < MaxRegs
    /\ \E r \in Routers, router \in Routers :
          /\ router # r
          /\ RegisterRouter(r, router)
          /\ lastOp' = [NoOp EXCEPT
                           !.op = "register_router", !.router = r,
                           !.path = Prefix(router), !.app = router,
                           !.raised = RegisterRouterOn(St, r, router).raised]

NextReg ==
    RegAddRoute \/ RegAddWebSocketRoute \/ RegAddResource \/ RegMount
        \/ RegRegisterRouter

SpecReg == InitReg /\ [][NextReg]_vars

----------------------------------------------------------------------------
(* Claims about match resolution (SpecRoute) *)

\* The scope handed to matches() for entry i of router r, in a call
\* get_route_from_scope(scope, mounted) of r in which no earlier entry
\* matched FULL: every Mount entry up to i has rewritten it.
RECURSIVE HandedScope(_, _, _, _)
HandedScope(entries, i, scope, mounted) ==
    LET before == IF i = 1 THEN scope ELSE HandedScope(entries, i - 1, scope, mounted)
    IN IF entries[i].kind = "mount" THEN RewriteForMount(before, mounted) ELSE before

\* The match of entry i in call c = [router, scope, mounted].
MatchAt(c, i) ==
    Matches(routes[c.router][i], HandedScope(routes[c.router], i, c.scope, c.mounted))

\* Entry j is the first entry of call c's router that matches FULL.
FirstFull(c, j) ==
    /\ MatchAt(c, j).match = "FULL"
    /\ \A h \in 1..(j - 1) : MatchAt(c, h).match # "FULL"

\* Entry i is the first entry of call c's router that matches PARTIAL.
FirstPartial(c, i) ==
    /\ MatchAt(c, i).match = "PARTIAL"
    /\ \A h \in 1..(i - 1) : MatchAt(c, h).match # "PARTIAL"

\* R1 = entry i matches PARTIAL and R2 = entry j, registered after R1, is a
\* route and the first entry to match FULL.
PartialThenFull(c, i, j) ==
    /\ i < j
    /\ MatchAt(c, i).match = "PARTIAL"
    /\ routes[c.router][j].kind # "mount"
    /\ FirstFull(c, j)

\* The match of entry i of call c's router against the scope the call was
\* given.
MatchGiven(c, i) == Matches(routes[c.router][i], c.scope)

\* C1 as claimed: in every call of get_route_from_scope, when an entry R1
\* matches the scope the call was given in path but not in method, and a
\* route R2 registered after R1 matches it in path and method, the call
\* returns R2 and a scope that carries R2's child scope. (R2 is the first
\* entry to match in full, and no Mount before R2 matches, be it against the
\* scope given or against the scope as rewritten for that Mount.)
C1_Original ==
    result.called =>
        \A k \in DOMAIN result.calls :
            LET c == result.calls[k]
            IN \A i, j \in 1..Len(routes[c.router]) :
                (/\ i < j
                 /\ MatchGiven(c, i).match = "PARTIAL"
                 /\ routes[c.router][j].kind # "mount"
                 /\ MatchGiven(c, j).match = "FULL"
                 /\ \A h \in 1..(j - 1) :
                        /\ MatchGiven(c, h).match # "FULL"
                        /\ MatchAt(c, h).match # "FULL")
                    => /\ result.route = EntryRef(c.router, j)
                       /\ result.scope # Absent
                       /\ result.scope[1].endpoint = MatchGiven(c, j).child.endpoint

\* What the loop does ensure, with each entry matched against the scope as
\* the Mount entries before it have left it: when an entry R1 matches PARTIAL
\* and a later entry matches FULL, the call never returns R1; when the first
\* entry to match FULL is a route R2 registered after R1, the call returns R2
\* and the rewritten scope updated by R2's child scope.
FullBeatsEarlierPartialAsExamined ==
    result.called =>
        \A k \in DOMAIN result.calls :
            LET c == result.calls[k]
                n == Len(routes[c.router])
            IN \A i, j \in 1..n :
                /\ (i < j /\ MatchAt(c, i).match = "PARTIAL" /\ FirstFull(c, j))
                        => result.route # EntryRef(c.router, i)
                /\ PartialThenFull(c, i, j)
                        => /\ result.route = EntryRef(c.router, j)
                           /\ result.scope =
                                Some(ScopeUpdate(
                                    HandedScope(routes[c.router], j, c.scope, c.mounted),
                                    MatchAt(c, j).child))

\* A request resolved to a FULL-matching route registered after a
\* PARTIAL-matching one, in a mounted router.
FullAfterPartialInMount ==
    /\ result.called
    /\ \E k \in DOMAIN result.calls :
          LET c == result.calls[k]
          IN /\ c.mounted
             /\ \E i, j \in 1..Len(routes[c.router]) :
                    PartialThenFull(c, i, j) /\ result.route = EntryRef(c.router, j)

\* No entry of call c's router matches FULL.
NoFull(c) == \A h \in 1..Len(routes[c.router]) : MatchAt(c, h).match # "FULL"

\* The scope at the end of call c's loop when no entry matched FULL.
FinalScope(c) ==
    IF routes[c.router] = <<>> THEN c.scope
    ELSE HandedScope(routes[c.router], Len(routes[c.router]), c.scope, c.mounted)

\* C2 as amended: when the loop of a call ends without any entry of its
\* router (Route or Mount) matching FULL, the call returns the first
\* PARTIAL-matching entry of that router with the scope updated by that
\* entry's child scope, or, when no entry matches PARTIAL, that router's
\* not-found handler with a None scope. A Mount that matches FULL ends the
\* loop of its call: the mounted router is called, and the outer call
\* returns what that call returns.
C2_PartialOrNotFoundPerCall ==
    result.called =>
        \A k \in DOMAIN result.calls :
            LET c == result.calls[k]
                n == Len(routes[c.router])
            IN /\ NoFull(c) =>
                    /\ k = Len(result.calls)
                    /\ \A i \in 1..n : FirstPartial(c, i) =>
                            /\ result.route = EntryRef(c.router, i)
                            /\ result.scope =
                                    Some(ScopeUpdate(FinalScope(c), MatchAt(c, i).child))
                    /\ (\A i \in 1..n : MatchAt(c, i).match # "PARTIAL") =>
                            /\ result.route = NotFoundRef(c.router)
                            /\ result.scope = Absent
               /\ \A j \in 1..n :
                    (FirstFull(c, j) /\ routes[c.router][j].kind = "mount") =>
                        /\ k < Len(result.calls)
                        /\ result.calls[k + 1].router = routes[c.router][j].app
                        /\ result.calls[k + 1].mounted

\* C2 witness: a call returned its first PARTIAL-matching entry although a
\* later entry of the same router matched PARTIAL too.
C2_Witness ==
    /\ result.called
    /\ \E k \in DOMAIN result.calls :
          LET c == result.calls[k]
          IN /\ NoFull(c)
             /\ \E i, j \in 1..Len(routes[c.router]) :
                    /\ i < j
                    /\ FirstPartial(c, i)
                    /\ MatchAt(c, j).match = "PARTIAL"
                    /\ result.route = EntryRef(c.router, i)

\* The examined entries that matched PARTIAL, and whether a route matched FULL.
PartialsExamined == {p \in DOMAIN result.trace : result.trace[p].match = "PARTIAL"}
FullRouteExamined ==
    \E p \in DOMAIN result.trace :
        result.trace[p].match = "FULL" /\ ~result.trace[p].isMount

\* C2 as claimed: when the call finds no FULL-matching route in its router
\* or in any mounted router it descends into, it returns the first
\* PARTIAL-matching entry it came across, and the not-found handler with a
\* None scope when there is none.
C2_Original ==
    (result.called /\ result.given.root_path = Some(EmptyStr) /\ ~FullRouteExamined) =>
        IF PartialsExamined # {}
        THEN \E p \in PartialsExamined :
                /\ \A q \in PartialsExamined : p <= q
                /\ result.route = EntryRef(result.trace[p].router, result.trace[p].idx)
        ELSE ~result.route.found /\ result.scope = Absent

\* Whether an entry matches a request for the path rest with the given
\* method: a route when its path and method match, a Mount when rest starts
\* with its prefix and a slash.
EntryFits(entry, rest, method) ==
    IF entry.kind = "mount" THEN StartsWith(rest, entry.path \o <<"/">>)
    ELSE /\ entry.kind = "route"
         /\ PathMatches(entry.path, rest)
         /\ (entry.methods = {} \/ method \in entry.methods)

\* What a request for the path rest resolves to in router r when prefix is the
\* concatenation of the Mount prefixes traversed so far: the first entry that
\* fits decides; a Mount hands the remainder to its router. Absent when no
\* entry fits.
RECURSIVE Resolution(_, _, _, _, _)
Resolution(r, rest, prefix, method, depth) ==
    LET fits == {i \in DOMAIN routes[r] : EntryFits(routes[r][i], rest, method)}
    IN IF fits = {} THEN Absent
       ELSE LET i == CHOOSE i \in fits : \A h \in fits : i <= h
                entry == routes[r][i]
            IN IF entry.kind = "mount"
               THEN Resolution(entry.app,
                               SubSeq(rest, Len(entry.path) + 1, Len(rest)),
                               prefix \o entry.path, method, depth + 1)
               ELSE Some([route |-> EntryRef(r, i), root_path |-> prefix,
                          path |-> rest, depth |-> depth])

\* C3 as claimed: a request whose path is the prefixes of nested Mounts
\* followed by the path of a route r of the innermost router resolves to r,
\* with root_path the concatenation of the prefixes and path the remainder,
\* whatever entries that do not fit the request are registered before.
C3_Original ==
    (result.called /\ result.given.root_path = Some(EmptyStr)) =>
        LET expected == Resolution(0, result.given.path, EmptyStr,
                                   result.given.method, 0)
        IN (expected # Absent /\ expected[1].depth >= 1) =>
                /\ result.route = expected[1].route
                /\ result.scope # Absent
                /\ Get(result.scope[1].root_path, EmptyStr) = expected[1].root_path
                /\ result.scope[1].path = expected[1].path

\* C10 as claimed: a Mount entry that did not match leaves the scope's path
\* and root_path as they were before the entry was examined.
C10_Original ==
    (result.called /\ result.given.root_path = Some(EmptyStr)) =>
        \A p \in DOMAIN result.trace :
            LET t == result.trace[p]
            IN (t.isMount /\ t.match = "NONE") =>
                    /\ t.examined.path = t.before.path
                    /\ Get(t.examined.root_path, EmptyStr)
                            = Get(t.before.root_path, EmptyStr)

----------------------------------------------------------------------------
(* Claims about registration (SpecAdd, SpecReg) *)

\* The union of the explicit overrides and the attached ones, the attached
\* schema standing for a name both give.
UnionAttachedWins(attached, explicit) ==
    LET A == Get(attached, EmptyMap)
        E == Get(explicit, EmptyMap)
    IN [n \in DOMAIN A \cup DOMAIN E |-> IF n \in DOMAIN A THEN A[n] ELSE E[n]]

\* What C7 says of a call add_route(endpoint, request_schemas = explicit,
\* response_schema = explicitResp), apart from its completing.
AddRouteEffect ==
    /\ Len(routes[lastOp.router]) = lastOp.entries + 1
    /\ routes[lastOp.router][lastOp.entries + 1].kind = "route"
    /\ routes[lastOp.router][lastOp.entries + 1].endpoint = lastOp.endpoint
    /\ Get(epReq[lastOp.endpoint], EmptyMap) =
            IF Truthy(lastOp.attached)
            THEN UnionAttachedWins(lastOp.attached, lastOp.explicit)
            ELSE Get(lastOp.explicit, EmptyMap)
    /\ epResp[lastOp.endpoint] =
            IF lastOp.attachedResp # Absent THEN lastOp.attachedResp
            ELSE lastOp.explicitResp

\* C7 as claimed: for every combination of attached overrides and explicit
\* overrides (none passed included), add_route completes, appends one Route,
\* and leaves the endpoint with the explicit overrides when none were
\* attached and otherwise with the union in which the attached schemas win;
\* an attached response schema is kept, otherwise the explicit one is set.
C7_Original ==
    lastOp.op = "add_route" => (lastOp.raised = "" /\ AddRouteEffect)

\* The path without its trailing slashes: stripped is a prefix of path that
\* does not end with a slash, and only slashes follow it in path.
IsStripped(stripped, path) ==
    /\ StartsWith(path, stripped)
    /\ \A i \in (Len(stripped) + 1)..Len(path) : path[i] = "/"
    /\ (stripped = <<>> \/ stripped[Len(stripped)] # "/")

\* C8: a call parent.mount(path, sub) makes sub.components the very list
\* parent.components is (whatever list sub held before), changes no other
\* router's list, and appends to parent.routes a Mount of sub whose path is
\* the given path without its trailing slash; and nothing but a mount of a
\* router changes that router's list, so that after any sequence of mounts
\* the list of a router is the list of the parent that mounted it last.
C8_MountSharesComponents ==
    [][/\ (lastOp'.op \in {"mount", "register_router"} /\ lastOp'.raised = "") =>
            LET parent == lastOp'.router
                sub == lastOp'.app
            IN /\ components'[sub] = components[parent]
               /\ \A o \in Routers \ {sub} : components'[o] = components[o]
               /\ Len(routes'[parent]) = Len(routes[parent]) + 1
               /\ SubSeq(routes'[parent], 1, Len(routes[parent])) = routes[parent]
               /\ LET entry == routes'[parent][Len(routes'[parent])]
                  IN /\ entry.kind = "mount"
                     /\ entry.app = sub
                     /\ IsStripped(entry.path, lastOp'.path)
       /\ \A s \in Routers :
            components'[s] # components[s] =>
                /\ lastOp'.op \in {"mount", "register_router"}
                /\ lastOp'.app = s
      ]_vars

\* C8 witness: a router mounted by one parent has been mounted again by
\* another, with a path that ends with a slash, and holds that parent's list.
C8_Witness ==
    /\ lastOp.op = "mount"
    /\ lastOp.path = PathASlash
    /\ \E other \in Routers \ {lastOp.router, lastOp.app} :
          /\ \E i \in DOMAIN routes[other] :
                routes[other][i].kind = "mount" /\ routes[other][i].app = lastOp.app
          /\ components[other] # components[lastOp.router]
    /\ components[lastOp.app] = components[lastOp.router]
    /\ components[lastOp.app] # lastOp.app

IsBuiltRoute(entry) == entry.kind \in {"route", "websocket"}

\* C9: a registration call leaves every Route and WebSocketRoute that is
\* already built in its place with its query_fields, path_fields, body_field
\* and output_field unchanged.
C9_BuiltFieldsNeverChange ==
    [][\A r \in Routers : \A i \in DOMAIN routes[r] :
            IsBuiltRoute(routes[r][i]) =>
                /\ i \in DOMAIN routes'[r]
                /\ IsBuiltRoute(routes'[r][i])
                /\ routes'[r][i].query_fields = routes[r][i].query_fields
                /\ routes'[r][i].path_fields = routes[r][i].path_fields
                /\ routes'[r][i].body_field = routes[r][i].body_field
                /\ routes'[r][i].output_field = routes[r][i].output_field
      ]_vars

\* The fields a route would get if it were built now.
FieldsNow(r, entry) ==
    GetFields(IF entry.kind = "route" THEN entry.methods ELSE {"GET"},
              HandlerOf(entry.endpoint, epReq[entry.endpoint], epResp[entry.endpoint]),
              ListContents(components[r]), ParamConvertors(entry.path))

\* C9 witness: a built route whose router has since got another component
\* list, or whose endpoint has since got other overrides, so that building
\* it now would give other query fields than the ones it keeps.
C9_Witness ==
    \E r \in Routers : \E i \in DOMAIN routes[r] :
        /\ IsBuiltRoute(routes[r][i])
        /\ Len(routes[r]) > i
        /\ FieldsNow(r, routes[r][i]).query_fields # routes[r][i].query_fields

----------------------------------------------------------------------------
(* Specification of signature introspection: a handler, a component list,   *)
(* a route path and the handler's schema overrides are drawn, and the       *)
(* handler is introspected.                                                 *)

ParamNames == {"x", "q", "self"}
ParamAnnotations == {"int", "OptInt", "empty", "Schema", "T"}
ParamDefaults == {Absent, Some("d")}
Params == [name : ParamNames, annotation : ParamAnnotations, default : ParamDefaults]

\* The signatures of at most MaxParams parameters; a signature has no two
\* parameters of one name.
Signatures ==
    {sig \in UNION {[1..n -> Params] : n \in 1..MaxParams} :
        \A i, j \in DOMAIN sig : sig[i].name = sig[j].name => i = j}

\* A component whose resolve asks for what the component itself provides.
ComponentLoop ==
    [handles |-> {"T"},
     resolve |-> <<[name |-> "t", annotation |-> "T", default |-> Absent]>>]

ComponentLists ==
    {<<>>, <<ComponentT>>, <<ComponentOptT>>, <<ComponentOptT, ComponentT>>,
     <<ComponentLoop>>}

InitFields ==
    /\ InitRouters
    /\ epReq = [e \in Endpoints |-> Absent]
    /\ epResp = [e \in Endpoints |-> Absent]
    /\ resp = NoResp
    /\ \E params \in Signatures, comps \in ComponentLists,
          path \in {PathC, PathParamX, PathParamSelf},
          request_schemas \in {Absent, Some([n \in {"q"} |-> "Schema"])} :
            intro = [NoIntro EXCEPT !.params = params, !.comps = comps,
                                    !.path = path,
                                    !.request_schemas = request_schemas]

NextFields == Introspect

SpecFields == InitFields /\ [][NextFields]_vars

----------------------------------------------------------------------------
(* Specification of response normalization: the handler of a route has      *)
(* returned a value, and the adapter normalizes it.                         *)

\* Response objects a handler may have built itself.
BuiltResponses ==
    {APIResponse(content, Absent, background, status_code) :
        content \in {"", "str"}, background \in {Absent, Some("own task")},
        status_code \in {202, 404}}

ReturnValues ==
    {[kind |-> k, obj |-> NoObj] : k \in {"dict", "list", "str", "None", "other"}}
        \cup {ResponseValue(obj) : obj \in BuiltResponses}

InitResp ==
    /\ InitRouters
    /\ epReq = [e \in Endpoints |-> Absent]
    /\ epResp = [e \in Endpoints |-> Absent]
    /\ intro = NoIntro
    /\ \E value \in ReturnValues, schema \in {Absent, Some("Schema")},
          background_task \in {Absent, Some("task")}, status_code \in {200, 201} :
            resp = [NoResp EXCEPT !.value = value, !.schema = schema,
                                  !.background_task = background_task,
                                  !.status_code = status_code]

NextResp == Adapter

SpecResp == InitResp /\ [][NextResp]_vars

----------------------------------------------------------------------------
(* Claims about introspection (SpecFields) and normalization (SpecResp) *)

\* The path Field of a name, as C4 describes it, and no query or body Field
\* of that name.
IsPathFieldOnly(name) ==
    /\ name \in DOMAIN intro.out.path_fields
    /\ intro.out.path_fields[name].name = name
    /\ intro.out.path_fields[name].location = "path"
    /\ intro.out.path_fields[name].required = Some(TRUE)
    /\ name \notin DOMAIN intro.out.query_fields
    /\ (intro.out.body_field = Absent \/ intro.out.body_field[1].name # name)

\* C4 as claimed: every parameter of the handler (self and cls apart) whose
\* name is a compiled path-parameter name of the route gets a Field with
\* location path and required true, whatever its annotation and default, and
\* no query or body Field.
C4_Original ==
    (intro.done /\ intro.out.ok) =>
        \A i \in DOMAIN intro.params :
            (/\ intro.params[i].name \in ParamConvertors(intro.path)
             /\ intro.params[i].name \notin {"self", "cls"})
                => IsPathFieldOnly(intro.params[i].name)

\* C4 as amended: every parameter of the handler that is not named self or
\* cls, that no component of the router claims, and whose name is a compiled
\* path-parameter name of the route gets a Field with location path and
\* required true, whatever its annotation, its default and its schema
\* override, and no query or body Field.
C4_PathFieldForConcreteParameter ==
    (intro.done /\ intro.out.ok) =>
        \A i \in DOMAIN intro.params :
            (/\ intro.params[i].name \in ParamConvertors(intro.path)
             /\ intro.params[i].name \notin {"self", "cls"}
             /\ \A c \in DOMAIN intro.comps :
                    ~CanHandleParameter(intro.comps[c], intro.params[i]))
                => IsPathFieldOnly(intro.params[i].name)

\* C4 witness: a parameter named as the path parameter, with a schema
\* annotation and a default, next to a parameter that a component claims,
\* has been introspected.
C4_Witness ==
    /\ intro.done /\ intro.out.ok
    /\ intro.path = PathParamX
    /\ \E i, j \in DOMAIN intro.params :
          /\ intro.params[i] = [name |-> "x", annotation |-> "Schema", default |-> Some("d")]
          /\ intro.params[j].annotation = "T"
          /\ \E c \in DOMAIN intro.comps :
                CanHandleParameter(intro.comps[c], intro.params[j])
    /\ IsPathFieldOnly("x")

\* The query Field C5 describes for a parameter: not required, with the
\* default (or None) as the schema's missing value, when the annotation is an
\* optional type or a default is declared, and required otherwise. An
\* unannotated parameter gets no schema.
IsQueryFieldOf(param) ==
    /\ param.name \in DOMAIN intro.out.query_fields
    /\ LET field == intro.out.query_fields[param.name]
           optional == param.annotation \in {"OptInt", "OptFloat", "OptBool", "OptStr"}
                            \/ param.default # Absent
       IN /\ field.name = param.name
          /\ field.location = "query"
          /\ field.required = Some(~optional)
          /\ IF param.annotation = "empty" THEN field.schema = Absent
             ELSE /\ field.schema # Absent
                  /\ IF optional
                     THEN /\ field.schema[1].missing = Some(Get(param.default, "None"))
                          /\ field.schema[1].required = Absent
                     ELSE /\ field.schema[1].required = Some(TRUE)
                          /\ field.schema[1].missing = Absent

\* The annotation of a parameter once the handler's schema override for its
\* name, if there is one, has replaced it.
Overridden(param) ==
    IF intro.request_schemas # Absent /\ param.name \in DOMAIN intro.request_schemas[1]
    THEN [param EXCEPT !.annotation = intro.request_schemas[1][param.name]]
    ELSE param

C6_NormalizationByKind ==
    resp.done =>
        LET kind == resp.value.kind
            wrapped(content, schema) ==
                /\ resp.sent.kind = "Response"
                /\ resp.sent.obj.cls = "APIResponse"
                /\ resp.sent.obj.content = content
                /\ resp.sent.obj.schema = schema
                /\ resp.sent.obj.status_code = resp.status_code
                /\ resp.sent.obj.background = resp.background_task
        IN /\ kind \in {"dict", "list"} => wrapped(kind, resp.schema)
           /\ kind = "str" => wrapped(kind, Absent)
           /\ kind = "None" => wrapped("", Absent)
           /\ kind = "Response" => resp.sent = resp.value
           /\ (kind = "other" /\ resp.schema # Absent) => wrapped(kind, resp.schema)
           /\ (kind = "other" /\ resp.schema = Absent) => resp.sent = resp.value

\* C6 witness: a response object the handler built with its own status code
\* and background task has gone through the adapter of a route that has
\* another status code and another task.
C6_Witness ==
    /\ resp.done
    /\ resp.value.kind = "Response"
    /\ resp.value.obj.status_code # resp.status_code
    /\ resp.value.obj.background # resp.background_task
    /\ resp.background_task # Absent
    /\ resp.sent = resp.value

----------------------------------------------------------------------------
(* Specification of the HTTP endpoint adapter _app (lines 169-230), one     *)
(* action per stretch of code between two awaits. resp.pc is the position   *)
(* of the coroutine, resp.events what it has done so far, resp.exc the      *)
(* exception that left it and resp.raisedAt the step that raised it.        *)

\* The exceptions of the model: InjectError and HandlerError are instances of
\* Exception, Cancelled is a BaseException that is not one (a cancellation
\* delivered at an await, KeyboardInterrupt, SystemExit), and TypeError is
\* what Python raises for None["path_params"] and for calling a value that
\* is not callable.
IsException(exc) == exc \in {"InjectError", "HandlerError", "TypeError"}

\* Lines 226-228: except Exception logs and re-raises; any other exception
\* leaves the try statement without being caught.
RaiseInTry(r, exc, step) ==
    [r EXCEPT !.pc = "raised", !.exc = exc, !.raisedAt = step,
              !.events = IF IsException(exc) THEN Append(@, "log") ELSE @]

\* An exception outside the try statement is not logged.
RaiseOutsideTry(r, exc, step) ==
    [r EXCEPT !.pc = "raised", !.exc = exc, !.raisedAt = step]

\* Lines 170-183: the route is resolved again from the scope, and
\* route_scope["path_params"] is read; route_scope is None when the router
\* returns its not-found handler.
AdapterResolve ==
    /\ resp.pc = "start"
    /\ LET got == GetRouteFromScope(routes, 0, resp.scope, FALSE)
       IN resp' = IF got.scope = Absent
                  THEN RaiseOutsideTry(resp, "TypeError", "resolve")
                  ELSE [resp EXCEPT !.pc = "resolved", !.events = Append(@, "resolve")]
    /\ UNCHANGED <<routes, components, epReq, epResp, lastOp, phase, result, intro>>

\* Lines 186-190: await app.injector.inject(endpoint, state), then the
\* background task is looked up in the state.
AdapterInject ==
    /\ resp.pc = "resolved"
    /\ \E outcome \in {"ok", "InjectError", "Cancelled"},
          background_task \in {Absent, Some("task")} :
            resp' = IF outcome = "ok"
                    THEN [resp EXCEPT !.pc = "injected",
                                      !.background_task = background_task,
                                      !.events = Append(@, "inject")]
                    ELSE RaiseInTry(resp, outcome, "inject")
    /\ UNCHANGED <<routes, components, epReq, epResp, lastOp, phase, result, intro>>

\* Lines 192-195: the handler is awaited, directly or in the thread pool.
AdapterInvoke ==
    /\ resp.pc = "injected"
    /\ \/ \E value \in ReturnValues :
            resp' = [resp EXCEPT !.pc = "invoked", !.value = value,
                                 !.events = Append(@, "invoke")]
       \/ \E exc \in {"HandlerError", "Cancelled"} :
            resp' = RaiseInTry(resp, exc, "invoke")
    /\ UNCHANGED <<routes, components, epReq, epResp, lastOp, phase, result, intro>>

\* Lines 197-225: the returned value is normalized.
AdapterNormalize ==
    /\ resp.pc = "invoked"
    /\ resp' = [resp EXCEPT
                   !.pc = "normalized",
                   !.sent = Normalize(resp.value, resp.schema, resp.background_task,
                                      resp.status_code),
                   !.events = Append(@, "normalize")]
    /\ UNCHANGED <<routes, components, epReq, epResp, lastOp, phase, result, intro>>

\* Line 230: await response(scope, receive, send). A response object sends
\* itself; calling any other value raises TypeError, outside the try.
AdapterSend ==
    /\ resp.pc = "normalized"
    /\ resp' = IF resp.sent.kind = "Response"
               THEN [resp EXCEPT !.pc = "sent", !.done = TRUE,
                                 !.events = Append(@, "send")]
               ELSE RaiseOutsideTry(resp, "TypeError", "send")
    /\ UNCHANGED <<routes, components, epReq, epResp, lastOp, phase, result, intro>>

\* The registration state before any call.
EmptySt ==
    [routes |-> [r \in Routers |-> <<>>], components |-> [r \in Routers |-> r],
     epReq |-> [e \in Endpoints |-> Absent], epResp |-> [e \in Endpoints |-> Absent],
     raised |-> ""]

\* Two applications: one with the route GET /c alone, one with a Mount
\* registered before it.
AdapterApps ==
    {AddRouteOn(EmptySt, 0, PathC, "g", GetOnly, 200, Absent, Absent),
     AddRouteOn(MountOn(EmptySt, 0, PathX, 1), 0, PathC, "g", GetOnly, 200,
                Absent, Absent)}

\* The substrate has dispatched a request for /c to the route's adapter; the
\* application is served at the root or under the root path /a.
InitAdapter ==
    /\ \E st \in AdapterApps :
          /\ routes = st.routes
          /\ components = st.components
          /\ epReq = st.epReq
          /\ epResp = st.epResp
    /\ lastOp = NoOp
    /\ phase = "serving"
    /\ result = NoResult
    /\ intro = NoIntro
    /\ \E root_path \in {EmptyStr, PathA}, schema \in {Absent, Some("Schema")},
          status_code \in {200, 201} :
            resp = [NoResp EXCEPT
                       !.pc = "start",
                       !.scope = [NoScope EXCEPT !.path = PathC,
                                                 !.root_path = Some(root_path)],
                       !.schema = schema,
                       !.status_code = status_code]

NextAdapter ==
    AdapterResolve \/ AdapterInject \/ AdapterInvoke \/ AdapterNormalize \/ AdapterSend

SpecAdapter == InitAdapter /\ [][NextAdapter]_vars

----------------------------------------------------------------------------
(* Claims about the adapter's steps (SpecAdapter) *)

\* How many times an event occurs in the events of the run.
Occurrences(event) ==
    Cardinality({i \in DOMAIN resp.events : resp.events[i] = event})

\* The run of the adapter is over: it has returned or an exception left it.
AdapterOver == resp.pc \in {"sent", "raised"}

\* C11 as claimed: once the adapter's run is over, if injection, invocation
\* and normalization all completed then exactly one response was sent, and
\* after normalization; a response is never sent before normalization or
\* twice; and if injection or the handler raised an exception (an instance
\* of Exception) it was logged once, it is the exception that leaves the
\* adapter, and no response was sent.
C11_Original ==
    /\ Occurrences("send") <= 1
    /\ \A i \in DOMAIN resp.events :
          resp.events[i] = "send" =>
              \E j \in 1..(i - 1) : resp.events[j] = "normalize"
    /\ (AdapterOver /\ Occurrences("normalize") = 1) =>
          /\ Occurrences("send") = 1
          /\ resp.exc = ""
    /\ (AdapterOver /\ resp.raisedAt \in {"inject", "invoke"} /\ IsException(resp.exc)) =>
          /\ Occurrences("log") = 1
          /\ Occurrences("send") = 0
          /\ resp.exc \in {"InjectError", "HandlerError"}

----------------------------------------------------------------------------
(* Claims about component-driven expansion (SpecFields) *)

\* The expansion C12 describes, as a list: a parameter that no component
\* claims stands for itself, and a claimed one is replaced by the expansion
\* of the resolve parameters of the first component that claims it. depth
\* bounds the nesting; a chain of claims that returns to a component has no
\* expansion.
RECURSIVE ExpandList(_, _, _)
ExpandList(params, comps, depth) ==
    IF params = <<>> THEN <<>>
    ELSE LET p == Head(params)
             claiming == {c \in DOMAIN comps : p.annotation \in comps[c].handles}
             first == CHOOSE c \in claiming : \A d \in claiming : c <= d
         IN (IF claiming = {} THEN <<p>>
             ELSE IF depth = 0 THEN <<>>
             ELSE ExpandList(comps[first].resolve, comps, depth - 1))
            \o ExpandList(Tail(params), comps, depth)

\* The parameters of a list, as a set.
ParameterSet(list) == {list[i] : i \in DOMAIN list}

\* C12 as claimed: for every handler and every ordered component list the
\* expansion terminates, and its result holds exactly the parameters the
\* handler declares and no component claims, unchanged, and, for each claimed
\* parameter, the transitively expanded parameters of the resolve signature
\* of the first component that claims it.
C12_Original ==
    intro.done =>
        /\ intro.out.ok
        /\ ParameterSet(intro.parameters)
                = ParameterSet(ExpandList(intro.params, intro.comps, Len(intro.comps)))

====
